---- MODULE Spec2Model ----
(***************************************************************************)
(* Model of glm5_app.py, a Streamlit script that keeps a personal library  *)
(* in a MongoDB collection.  One run of the script is: connect, load the   *)
(* whole collection into a table, then handle the one widget interaction   *)
(* that triggered the run (form submit, search, update button, delete      *)
(* button).                                                                *)
(*                                                                         *)
(* Text is modelled as a sequence of one-character strings, so that        *)
(* truthiness, lower-casing, substring search and glyph counting are done  *)
(* on characters.  The star glyph U+2B50 is the single character Glyph.    *)
(***************************************************************************)
EXTENDS Integers, Sequences, FiniteSets, TLC

(* ------------------------------ bounds -------------------------------- *)

\* Most documents the collection holds in a checked behaviour.
MaxBooks == 2

\* Longest search term typed into the search box.
MaxTermLen == 2

(* ------------------------- program constants -------------------------- *)

\* select_slider options=[1, 2, 3, 4, 5], value=3
MinRating == 1
MaxRating == 5
DefaultRating == 3

Glyph == "STAR"
Yes == <<"Y", "e", "s">>
No == <<"N", "o">>
NoValue == "<unset>"
DefaultUri == "mongodb://localhost:27017"
ObjectId == "ObjectId"
Columns == {"Title", "Author", "Purchased", "Read", "Rating", "Notes"}

VARIABLES
    secrets,         \* st.secrets["MONGO_URI"], or NoValue when the lookup raises
    environ,         \* os.environ["MONGO_URI"], or NoValue when it is not set
    client,          \* the URI this run gave to pymongo.MongoClient
    store,           \* the "books" collection: documents in natural order
    df,              \* the table this run loaded
    pc,              \* where the session is: start, loaded, done, rerun, error
    op,              \* the interaction this run handled
    form,            \* the widget values the handler read
    sent,            \* the dict the handler passed to the collection
    selected_title,  \* the selectbox value the handler used
    calls,           \* the collection methods this run called, in order
    msg,             \* the message this run showed
    search_term,     \* the search box value
    display_df       \* the rows shown in the table view

vars == <<secrets, environ, client, store, df, pc, op, form, sent,
          selected_title, calls, msg, search_term, display_df>>

(* ------------------------------ inputs -------------------------------- *)

\* What a user types into Title*: nothing, one blank, or a title.
TitleInputs == {<<>>, <<" ">>, <<"D">>}
Ratings == MinRating..MaxRating

\* The three text boxes other than the title are filled in together or not
\* at all; read and rating range over all their values.
TextInputs ==
    { [author |-> <<>>, purchased |-> <<>>, notes |-> <<>>],
      [author |-> <<"S">>, purchased |-> <<"b">>, notes |-> <<"r">>] }

EditInputs ==
    { [author |-> t.author, purchased |-> t.purchased, read |-> r,
       rating |-> n, notes |-> t.notes] :
         t \in TextInputs, r \in BOOLEAN, n \in Ratings }

AddInputs ==
    { [title |-> ti, author |-> e.author, purchased |-> e.purchased,
       read |-> e.read, rating |-> e.rating, notes |-> e.notes] :
         ti \in TitleInputs, e \in EditInputs }

\* The widgets' values before the user touches them.
FormDefaults ==
    [title |-> <<>>, author |-> <<>>, purchased |-> <<>>, read |-> FALSE,
     rating |-> DefaultRating, notes |-> <<>>]

NoDoc == [k \in {} |-> <<>>]

(* --------------------------- field mapping ---------------------------- *)

\* Python truthiness of a str: only the empty string is falsy.
Truthy(s) == s # <<>>

\* Faulty variant: one glyph short, as '*' * (rating - 1).
toGlyphString_short(n) == [i \in 1..(n - 1) |-> Glyph]

\* f"{'*' * rating}"
toGlyphString(n) == [i \in 1..n |-> Glyph]

\* current_data["Rating"].count("*")
countGlyphs(s) == Cardinality({i \in DOMAIN s : s[i] = Glyph})

\* "Yes" if read else "No"
ReadText(b) == IF b THEN Yes ELSE No

\* Faulty variant: the checkbox read the wrong way round.
new_book_read_inverted(f) ==
    [Title |-> f.title, Author |-> f.author, Purchased |-> f.purchased,
     Read |-> ReadText(~f.read), Rating |-> toGlyphString(f.rating),
     Notes |-> f.notes]

new_book(f) ==
    [Title |-> f.title, Author |-> f.author, Purchased |-> f.purchased,
     Read |-> ReadText(f.read), Rating |-> toGlyphString(f.rating),
     Notes |-> f.notes]

\* Faulty variant: the edit panel also sends a Title, taken from the author box.
updated_data_retitled(f) ==
    [Title |-> f.author, Author |-> f.author, Purchased |-> f.purchased,
     Read |-> ReadText(f.read), Rating |-> toGlyphString(f.rating),
     Notes |-> f.notes]

updated_data(f) ==
    [Author |-> f.author, Purchased |-> f.purchased,
     Read |-> ReadText(f.read), Rating |-> toGlyphString(f.rating),
     Notes |-> f.notes]

(* ----------------------------- collection ----------------------------- *)

\* The server gives every inserted document an _id.  Its value is never read
\* by the program, so one token stands for it.
insert_one(coll, doc) == Append(coll, doc @@ ("_id" :> ObjectId))

Matching(coll, title) == {i \in DOMAIN coll : coll[i].Title = title}

RemoveAt(coll, i) ==
    [j \in 1..(Len(coll) - 1) |-> IF j < i THEN coll[j] ELSE coll[j + 1]]

\* Faulty variant: delete_many, every matching document goes.
delete_many(coll, title) ==
    {SelectSeq(coll, LAMBDA d : d.Title # title)}

\* delete_one removes one matching document; which one, when several
\* match, is the server's choice.  The value is the set of outcomes.
delete_one(coll, title) ==
    IF Matching(coll, title) = {}
    THEN {coll}
    ELSE {RemoveAt(coll, i) : i \in Matching(coll, title)}

\* {"$set": new_data}
set_fields(doc, new_data) ==
    [k \in (DOMAIN doc) \cup (DOMAIN new_data) |->
        IF k \in DOMAIN new_data THEN new_data[k] ELSE doc[k]]

\* Faulty variant: update_many, every matching document is changed.
update_many(coll, title, new_data) ==
    {[i \in DOMAIN coll |->
        IF coll[i].Title = title THEN set_fields(coll[i], new_data)
        ELSE coll[i]]}

\* update_one changes one matching document, no upsert.
update_one(coll, title, new_data) ==
    IF Matching(coll, title) = {}
    THEN {coll}
    ELSE {[coll EXCEPT ![i] = set_fields(coll[i], new_data)] :
            i \in Matching(coll, title)}

save_book(coll, book_data) == insert_one(coll, book_data)
delete_book(coll, title) == delete_one(coll, title)
update_book(coll, old_title, new_data) == update_one(coll, old_title, new_data)

\* find({}, {'_id': 0}) into a DataFrame: every document without its _id.
load_data(coll) ==
    [i \in DOMAIN coll |->
        [c \in (DOMAIN coll[i]) \ {"_id"} |-> coll[i][c]]]

get_database(sec, env) ==
    IF sec # NoValue THEN sec
    ELSE IF env # NoValue THEN env
    ELSE DefaultUri

(* ------------------------------ edit panel ---------------------------- *)

book_titles(table) == [i \in DOMAIN table |-> table[i].Title]

Range(s) == {s[i] : i \in DOMAIN s}

\* df[df["Title"] == selected_title].iloc[0]
current_data(table, title) ==
    table[CHOOSE i \in Matching(table, title) :
            \A j \in Matching(table, title) : i <= j]

current_rating(table, title) == countGlyphs(current_data(table, title).Rating)

(* ------------------------------- search ------------------------------- *)

\* str.lower(), on the characters the inputs use.
LowerChar(c) ==
    CASE c = "A" -> "a"
      [] c = "B" -> "b"
      [] c = "D" -> "d"
      [] c = "M" -> "m"
      [] c = "N" -> "n"
      [] c = "S" -> "s"
      [] c = "Y" -> "y"
      [] OTHER -> c

lower(s) == [i \in DOMAIN s |-> LowerChar(s[i])]

\* re.compile(pat): of the characters the inputs use, "(" opens a group that
\* nothing closes, which is an error; "." is the wildcard; the rest are
\* literals.
re_compiles(pat) == "(" \notin Range(pat)

\* "." matches any character but a newline, a literal matches itself.
re_match_at(pat, s, k) ==
    \A i \in 1..Len(pat) :
        \/ pat[i] = "." /\ s[k + i - 1] # "\n"
        \/ pat[i] # "." /\ pat[i] = s[k + i - 1]

\* re.search(pat, s)
re_search(pat, s) ==
    \E k \in 1..(Len(s) - Len(pat) + 1) : re_match_at(pat, s, k)

\* Series.str.contains(pat): regex=True is the default.
str_contains(s, pat) == re_search(pat, s)

\* row.astype(str).str.lower().str.contains(search_term.lower()).any()
row_matches(row, term) ==
    \E c \in DOMAIN row : str_contains(lower(row[c]), lower(term))

\* df.apply(..., axis=1) calls the lambda on every row of a table that has
\* rows, so a pattern that does not compile raises there.  On a table with
\* no rows pandas swallows whatever its one trial call raises.
filter_raises(table, term) ==
    Truthy(term) /\ table # <<>> /\ ~re_compiles(lower(term))

RECURSIVE Select(_, _)
Select(table, term) ==
    IF table = <<>> THEN <<>>
    ELSE IF row_matches(Head(table), term)
         THEN <<Head(table)>> \o Select(Tail(table), term)
         ELSE Select(Tail(table), term)

\* if search_term: display_df = df[mask] else: display_df = df
filter(table, term) ==
    IF Truthy(term) THEN Select(table, term) ELSE table

(* ------------------------------- actions ------------------------------ *)

\* Faulty variant: if submitted, with the title not looked at.
TitleGiven_unchecked(title) == TRUE

\* if submitted and title:
TitleGiven(title) == Truthy(title)

\* A new run of the script: get_database(), collection, load_data().
ConnectAndLoad ==
    /\ pc \in {"start", "rerun", "done", "error"}
    /\ client' = get_database(secrets, environ)
    /\ calls' = <<"find">>
    /\ df' = load_data(store)
    /\ pc' = "loaded"
    /\ op' = "none"
    /\ form' = FormDefaults
    /\ sent' = NoDoc
    /\ selected_title' = <<>>
    /\ msg' = ""
    /\ search_term' = <<>>
    /\ display_df' = <<>>
    /\ UNCHANGED <<secrets, environ, store>>

\* What the add form's submit handler does to the collection and to the
\* script's variables, for the submitted values f.  On the rejected path
\* only the title is read.
HandleAdd(f) ==
    IF TitleGiven(f.title)
    THEN /\ Len(store) < MaxBooks
         /\ store' = save_book(store, new_book(f))
         /\ form' = f
         /\ sent' = new_book(f)
         /\ msg' = "Added to library!"
         /\ op' = "add"
    ELSE /\ store' = store
         /\ form' = [FormDefaults EXCEPT !.title = f.title]
         /\ sent' = NoDoc
         /\ msg' = "Title is required."
         /\ op' = "reject"

\* Faulty variant: the add handler without its st.rerun().
AfterAdd_no_rerun(f) == "done"

\* st.rerun() after a stored add; the script runs on after a rejected one.
AfterAdd(f) == IF TitleGiven(f.title) THEN "rerun" ELSE "done"

SubmitAdd(f) ==
    /\ pc = "loaded"
    /\ HandleAdd(f)
    /\ calls' = IF op' = "add" THEN Append(calls, "insert_one") ELSE calls
    /\ pc' = AfterAdd(f)
    /\ df' = IF pc' = "rerun" THEN <<>> ELSE df
    /\ selected_title' = <<>>
    /\ UNCHANGED <<secrets, environ, client, search_term, display_df>>

HandleUpdate(sel, e) ==
    /\ store' \in update_book(store, sel, updated_data(e))
    /\ form' = e
    /\ sent' = updated_data(e)
    /\ selected_title' = sel
    /\ msg' = "Book updated!"
    /\ op' = "update"

\* The selectbox offers the loaded table's titles; the panel is shown for a
\* truthy selection of a table that is not empty.
Selectable(table, sel) ==
    table # <<>> /\ sel \in Range(book_titles(table)) /\ Truthy(sel)

UpdateBook(sel, e) ==
    /\ pc = "loaded"
    /\ Selectable(df, sel)
    /\ HandleUpdate(sel, e)
    /\ calls' = Append(calls, "update_one")
    /\ pc' = "rerun"
    /\ df' = <<>>
    /\ UNCHANGED <<secrets, environ, client, search_term, display_df>>

HandleDelete(sel) ==
    /\ store' \in delete_book(store, sel)
    /\ form' = FormDefaults
    /\ sent' = NoDoc
    /\ selected_title' = sel
    /\ msg' = "Book deleted!"
    /\ op' = "delete"

DeleteBook(sel) ==
    /\ pc = "loaded"
    /\ Selectable(df, sel)
    /\ HandleDelete(sel)
    /\ calls' = Append(calls, "delete_one")
    /\ pc' = "rerun"
    /\ df' = <<>>
    /\ UNCHANGED <<secrets, environ, client, search_term, display_df>>

\* The search box and the table view.
Search(term) ==
    /\ pc = "loaded"
    /\ search_term' = term
    /\ op' = "search"
    /\ IF filter_raises(df, term)
       THEN display_df' = <<>> /\ pc' = "error"
       ELSE display_df' = filter(df, term) /\ pc' = "done"
    /\ UNCHANGED <<secrets, environ, client, store, df, form, sent,
                   selected_title, calls, msg>>

(* --------------------------- specifications --------------------------- *)

InitSession ==
    /\ client = NoValue
    /\ store = <<>>
    /\ df = <<>>
    /\ pc = "start"
    /\ op = "none"
    /\ form = FormDefaults
    /\ sent = NoDoc
    /\ selected_title = <<>>
    /\ calls = <<>>
    /\ msg = ""
    /\ search_term = <<>>
    /\ display_df = <<>>

\* One session of a deployment whose secrets hold the connection string.
Init ==
    /\ secrets = "mongodb+srv://cluster"
    /\ environ = NoValue
    /\ InitSession

Next ==
    \/ ConnectAndLoad
    \/ \E f \in AddInputs : SubmitAdd(f)
    \/ \E sel \in TitleInputs, e \in EditInputs : UpdateBook(sel, e)
    \/ \E sel \in TitleInputs : DeleteBook(sel)

Spec == Init /\ [][Next]_vars

\* Every deployment: the connection string in the secrets, in the
\* environment, in both, or in neither.
InitConfig ==
    /\ secrets \in {NoValue, "mongodb+srv://cluster"}
    /\ environ \in {NoValue, "mongodb://env-host"}
    /\ InitSession

SpecConfig == InitConfig /\ [][Next]_vars

(* The collection is shared by every session of the application.  Seen from *)
(* the collection, each session's handler is one call, made with a title    *)
(* taken from that session's table, which other sessions' calls may have    *)
(* made stale: the title need not be in the collection any more.            *)

StaleTitles == {t \in TitleInputs : Truthy(t)}

\* The sessions' inputs: as above, with the slider at either end.
SharedEditInputs ==
    {e \in EditInputs : e.rating \in {MinRating, MaxRating}}
SharedAddInputs ==
    {f \in AddInputs : f.rating \in {MinRating, MaxRating}}

SharedAdd(f) ==
    /\ HandleAdd(f)
    /\ UNCHANGED <<secrets, environ, client, df, pc, selected_title, calls,
                   search_term, display_df>>

SharedUpdate(sel, e) ==
    /\ HandleUpdate(sel, e)
    /\ UNCHANGED <<secrets, environ, client, df, pc, calls, search_term,
                   display_df>>

SharedDelete(sel) ==
    /\ HandleDelete(sel)
    /\ UNCHANGED <<secrets, environ, client, df, pc, calls, search_term,
                   display_df>>

NextShared ==
    \/ \E f \in SharedAddInputs : SharedAdd(f)
    \/ \E sel \in StaleTitles, e \in SharedEditInputs : SharedUpdate(sel, e)
    \/ \E sel \in StaleTitles : SharedDelete(sel)

SpecShared == Init /\ [][NextShared]_vars

(* The view: a loaded table and a term typed into the search box. *)

ViewForms ==
    { [title |-> <<"A", "b">>, author |-> <<"S", "m">>, purchased |-> <<>>,
       read |-> TRUE, rating |-> 4, notes |-> <<"a", ".", "b">>],
      [title |-> <<"m", "(">>, author |-> <<>>, purchased |-> <<"s">>,
       read |-> FALSE, rating |-> 1, notes |-> <<>>],
      [title |-> <<" ">>, author |-> <<"s", "M">>, purchased |-> <<>>,
       read |-> FALSE, rating |-> 5, notes |-> <<".">>] }

RECURSIVE InsertAll(_, _)
InsertAll(coll, forms) ==
    IF forms = <<>> THEN coll
    ELSE InsertAll(save_book(coll, new_book(Head(forms))), Tail(forms))

ViewStores ==
    { InsertAll(<<>>, fs) :
        fs \in UNION {[1..n -> ViewForms] : n \in 0..MaxBooks} }

TermChars == {"a", "S", "s", "m", "e", ".", "("}
Terms == UNION {[1..n -> TermChars] : n \in 0..MaxTermLen}

InitView ==
    /\ secrets = "mongodb+srv://cluster"
    /\ environ = NoValue
    /\ client = get_database(secrets, environ)
    /\ store \in ViewStores
    /\ df = load_data(store)
    /\ pc = "loaded"
    /\ op = "none"
    /\ form = FormDefaults
    /\ sent = NoDoc
    /\ selected_title = <<>>
    /\ calls = <<"find">>
    /\ msg = ""
    /\ search_term = <<>>
    /\ display_df = <<>>

NextView == \E term \in Terms : Search(term)

SpecView == InitView /\ [][NextView]_vars

(* ------------------------------- claims ------------------------------- *)

Count(coll, title) == Cardinality(Matching(coll, title))

\* A str.strip() of s is empty: s is empty or all blanks.
IsBlank(s) == \A i \in DOMAIN s : s[i] = " "

\* A step in which the add form's submit handler ran.
SubmitStep == pc = "loaded" /\ op' \in {"add", "reject"}

\* table holds the documents of coll, in order, each with exactly the six
\* columns and their stored values.
ShowsCollection(table, coll) ==
    /\ Len(table) = Len(coll)
    /\ \A i \in DOMAIN coll :
          /\ DOMAIN table[i] = Columns
          /\ \A c \in Columns : table[i][c] = coll[i][c]

\* C1: a submit of the add form with an empty title shows the validation
\* error, calls no collection method and leaves the collection as it was,
\* whatever the other fields hold.
C1_EmptyTitleRejected ==
    [][(SubmitStep /\ form'.title = <<>>) =>
          /\ op' = "reject"
          /\ msg' = "Title is required."
          /\ calls' = calls
          /\ store' = store]_vars

C1_Witness ==
    op = "reject" /\ form.title = <<>> /\ pc = "done" /\ store # <<>>

\* C2: a submit of the add form with a title that is empty or only blanks
\* shows the validation error and leaves the collection as it was.
C2_BlankTitleRejected ==
    [][(SubmitStep /\ IsBlank(form'.title)) =>
          /\ op' = "reject"
          /\ msg' = "Title is required."
          /\ store' = store]_vars

\* C3: with no connection string in the secrets or in the environment, no
\* client is opened on the default local URI and no collection method is
\* called: the run stops at a configuration error.
C3_NoDefaultConnection ==
    (secrets = NoValue /\ environ = NoValue) =>
        /\ client # DefaultUri
        /\ calls = <<>>
        /\ pc \in {"start", "config_error"}

\* C4, as claimed: no two documents of the collection have the same Title.
C4_TitleUnique ==
    \A i, j \in DOMAIN store : i # j => store[i].Title # store[j].Title

\* C4, amended: every stored Title is non-empty, and update and delete never
\* make a duplicate: neither raises the number of documents that carry any
\* Title.  (Add checks nothing, so duplicates come from add alone.)
C4_UpdateDeleteNoDuplicate ==
    [][/\ \A i \in DOMAIN store' : store'[i].Title # <<>>
       /\ (pc = "loaded" /\ op' \in {"update", "delete"}) =>
             \A t \in Range(book_titles(store')) :
                 Count(store', t) <= Count(store, t)]_vars

C4_Witness ==
    /\ op = "update"
    /\ pc = "rerun"
    /\ Count(store, selected_title) = 2
    /\ store[1] # store[2]

\* C5: an add of (t, b, n, author, purchased, notes), t non-empty, to a
\* collection that holds no document titled t keeps every document that was
\* there, in place and unchanged, and adds one; the load that follows shows
\* the collection, with exactly one row titled t, whose Read is "Yes" for b
\* and "No" otherwise, whose Rating has length n, and whose Author,
\* Purchased and Notes are the submitted values.
C5_AddThenLoad ==
    [][/\ (pc = "loaded" /\ op' = "add" /\ Count(store, form'.title) = 0) =>
             /\ form'.title # <<>>
             /\ Len(store') = Len(store) + 1
             /\ \A i \in DOMAIN store : store'[i] = store[i]
             /\ Count(store', form'.title) = 1
       /\ (pc = "rerun" /\ op = "add" /\ pc' = "loaded"
             /\ Count(store, form.title) = 1) =>
             /\ ShowsCollection(df', store)
             /\ Count(df', form.title) = 1
             /\ \A i \in Matching(df', form.title) :
                   /\ df'[i].Read = (IF form.read THEN Yes ELSE No)
                   /\ Len(df'[i].Rating) = form.rating
                   /\ df'[i].Author = form.author
                   /\ df'[i].Purchased = form.purchased
                   /\ df'[i].Notes = form.notes]_vars

C5_Witness ==
    /\ pc = "rerun"
    /\ op = "add"
    /\ form.title = <<"D">>
    /\ form.read
    /\ form.rating = 4
    /\ Len(store) = 2
    /\ Count(store, form.title) = 1

\* C6: an update sends the five edited fields and never Title.  It changes
\* at most one document, one whose Title is the selected title; that
\* document keeps its Title and every field that was not sent and takes the
\* sent values; the number of documents stays.  When no document has the
\* title, the collection is unchanged and the handler reports success.
C6_UpdateFrame ==
    [][op' = "update" =>
          /\ "Title" \notin DOMAIN sent'
          /\ msg' = "Book updated!"
          /\ Len(store') = Len(store)
          /\ Cardinality({i \in DOMAIN store : store'[i] # store[i]}) <= 1
          /\ \A i \in DOMAIN store :
                store'[i] # store[i] =>
                   /\ store[i].Title = selected_title'
                   /\ store'[i].Title = store[i].Title
                   /\ DOMAIN store'[i] = DOMAIN store[i]
                   /\ \A k \in (DOMAIN store[i]) \ (DOMAIN sent') :
                         store'[i][k] = store[i][k]
          /\ Count(store, selected_title') > 0 =>
                \E i \in Matching(store, selected_title') :
                    \A k \in DOMAIN sent' : store'[i][k] = sent'[k]
          /\ Count(store, selected_title') = 0 => store' = store]_vars

C6_Witness ==
    /\ op = "update"
    /\ store # <<>>
    /\ Count(store, selected_title) = 0

\* C7: a delete removes at most one document, one whose Title is the
\* selected title, and leaves the others as they were and in order, also
\* when several carry that title.  When none does, the collection is
\* unchanged and the handler reports as usual.
C7_DeleteFrame ==
    [][op' = "delete" =>
          /\ msg' = "Book deleted!"
          /\ Count(store, selected_title') = 0 => store' = store
          /\ Count(store, selected_title') > 0 =>
                /\ Len(store') = Len(store) - 1
                /\ \E i \in DOMAIN store :
                      /\ store[i].Title = selected_title'
                      /\ \A j \in DOMAIN store' :
                            store'[j] = IF j < i THEN store[j]
                                        ELSE store[j + 1]]_vars

C7_Witness ==
    /\ op = "delete"
    /\ Len(store) = 1
    /\ Count(store, selected_title) = 1

\* C8: the glyph string an add or an update writes for the slider value n
\* counts back to n, and every Rating of a loaded table counts back to a
\* slider value whose glyph string it is.
C8_RatingRoundTrip ==
    /\ op \in {"add", "update"} =>
          /\ form.rating \in Ratings
          /\ countGlyphs(sent.Rating) = form.rating
    /\ pc = "loaded" =>
          \A t \in Range(book_titles(df)) :
             /\ current_rating(df, t) \in Ratings
             /\ toGlyphString(current_rating(df, t))
                   = current_data(df, t).Rating

C8_Witness ==
    /\ op = "update"
    /\ form.rating = MaxRating
    /\ Len(sent.Rating) = MaxRating
    /\ \E i \in DOMAIN store : store[i].Rating = sent.Rating

\* lowered s holds lowered term as a run of consecutive characters.
HasSubstring(s, term) ==
    \E k \in 0..(Len(s) - Len(term)) :
        \A i \in 1..Len(term) : s[k + i] = term[i]

LiteralMatch(row, term) ==
    \E c \in DOMAIN row : HasSubstring(lower(row[c]), lower(term))

\* C9: a search shows, in order, exactly the rows of which some field,
\* lower-cased, holds the lower-cased term as a literal substring.
C9_LiteralSubstringFilter ==
    op = "search" =>
        /\ pc = "done"
        /\ Len(display_df) =
              Cardinality({i \in DOMAIN df : LiteralMatch(df[i], search_term)})
        /\ \A i \in DOMAIN display_df : LiteralMatch(display_df[i], search_term)

\* C10: a handler that calls a mutation of the collection ends in a rerun,
\* and the rerun's first step loads the whole collection; a table in use
\* shows the collection as it is; a rejected add calls nothing.
C10_ReloadAfterMutation ==
    [][/\ (pc = "loaded" /\ op' \in {"add", "update", "delete"}) =>
             pc' = "rerun"
       /\ store' # store => pc' = "rerun"
       /\ pc = "rerun" =>
             /\ pc' = "loaded"
             /\ calls' = <<"find">>
             /\ ShowsCollection(df', store)
       /\ op' = "reject" => (calls' = calls /\ store' = store)
       /\ pc' \in {"loaded", "done"} => ShowsCollection(df', store')]_vars

C10_Witness ==
    /\ pc = "loaded"
    /\ Len(df) = MaxBooks
    /\ ShowsCollection(df, store)

====
